---- MODULE Spec2Model ----
(***************************************************************************)
(* A model of sophi-doc.py: the result cache (get_cached_result,           *)
(* save_cached_result), the two-pass scan (read_project_files), the        *)
(* project fingerprint (calculate_project_hash) and the order of the       *)
(* steps of main.                                                          *)
(*                                                                         *)
(* Text is a sequence of one-character strings.  Time is counted in whole  *)
(* hours.  A cache file is the sequence of chunks json.dump wrote to it.   *)
(***************************************************************************)
EXTENDS Integers, Sequences, FiniteSets, TLC

(* ------------------------------ bounds --------------------------------- *)
\* the clock runs from 0 to MaxTime hours
MaxTime == 3
\* get is called with max_age_hours in 0..MaxAge
MaxAge == 2
\* a tree holds at most MaxFiles files
MaxFiles == 3
\* a file holds 0..MaxSize bytes
MaxSize == 2

(* ------------------------------ values --------------------------------- *)
\* Optional[str]: None, or a str
None == [some |-> FALSE, text |-> ""]
Some(s) == [some |-> TRUE, text |-> s]
\* cache_key = None
None_key == [some |-> FALSE, key |-> <<>>]

\* the cache keys and the result texts the cache is driven with
Keys == {<<"k">>, <<"j">>}
Results == {"A", "B"}
\* the text call_gemini_api, call_openai_api and call_anthropic_api return
\* when the request fails
ErrorText == "request failed"
Texts == Results \cup {ErrorText}

(* ------------------------------ text ----------------------------------- *)
\* the elements of a list
Range(q) == {q[i] : i \in 1..Len(q)}
\* str(n) for a natural number n
DigitChar(d) == << "0", "1", "2", "3", "4", "5", "6", "7", "8", "9" >>[d + 1]
RECURSIVE Digits(_)
Digits(n) == IF n < 10 THEN << DigitChar(n) >>
             ELSE Digits(n \div 10) \o << DigitChar(n % 10) >>

\* f"{file_size/1024:.1f}": one decimal, a tie rounded to the even digit
KBText(file_size) ==
    LET q == (file_size * 10) \div 1024
        r == (file_size * 10) % 1024
        tenths == IF r > 512 \/ (r = 512 /\ q % 2 = 1) THEN q + 1 ELSE q
    IN Digits(tenths \div 10) \o << "." >> \o Digits(tenths % 10)

\* t.split(' (')[0]: the text before the first ' ('
RECURSIVE SplitHead(_)
SplitHead(t) ==
    IF Len(t) < 2 THEN t
    ELSE IF t[1] = " " /\ t[2] = "(" THEN <<>>
    ELSE << t[1] >> \o SplitHead(Tail(t))

\* fnmatch.fnmatch(name, pat) for patterns of literal characters, * and ?
RECURSIVE fnmatch(_, _)
fnmatch(name, pat) ==
    IF pat = <<>> THEN name = <<>>
    ELSE IF pat[1] = "*"
         THEN \/ fnmatch(name, Tail(pat))
              \/ (name # <<>> /\ fnmatch(Tail(name), pat))
    ELSE /\ name # <<>>
         /\ (pat[1] = "?" \/ pat[1] = name[1])
         /\ fnmatch(Tail(name), Tail(pat))

\* os.path.splitext(file)[1]: from the last dot on, unless only dots precede it
LastDot(file) ==
    LET dots == {i \in 1..Len(file) : file[i] = "."}
    IN IF dots = {} THEN 0 ELSE CHOOSE i \in dots : \A j \in dots : j <= i
splitext(file) ==
    LET d == LastDot(file) IN
    IF d = 0 \/ (\A j \in 1..d : file[j] = ".") THEN <<>>
    ELSE SubSeq(file, d, Len(file))

DEFAULT_IGNORE_DIRS ==
    { <<".", "g", "i", "t">>,
      <<"_", "_", "p", "y", "c", "a", "c", "h", "e", "_", "_">>,
      <<"n", "o", "d", "e", "_", "m", "o", "d", "u", "l", "e", "s">>,
      <<".", "v", "s", "c", "o", "d", "e">>,
      <<".", "i", "d", "e", "a">>,
      <<"v", "e", "n", "v">>,
      <<"e", "n", "v">>,
      <<"d", "i", "s", "t">>,
      <<"b", "u", "i", "l", "d">> }
DEFAULT_IGNORE_EXTENSIONS ==
    { <<".", "p", "y", "c">>,
      <<".", "p", "y", "o">>,
      <<".", "o">>,
      <<".", "s", "o">>,
      <<".", "d", "l", "l">>,
      <<".", "e", "x", "e">>,
      <<".", "D", "S", "_", "S", "t", "o", "r", "e">>,
      <<".", "l", "o", "g">>,
      <<".", "t", "m", "p">> }

(* ------------------------------ the tree ------------------------------- *)
\* os.path.getsize / os.stat of this file raise
NoStat == -1

\* A tree: the files of the root directory and its subdirectories with their
\* files, each listing in the order os.walk meets it.  Subdirectories of
\* subdirectories are not modelled.
EmptyTree == [root |-> <<>>, subs |-> <<>>]
FileCount(t) ==
    LET RECURSIVE Sum(_)
        Sum(ss) == IF ss = <<>> THEN 0 ELSE Len(ss[1].files) + Sum(Tail(ss))
    IN Len(t.root) + Sum(t.subs)
FileNamesIn(files) == {files[i].name : i \in 1..Len(files)}
SubIndex(t, dir) == {i \in 1..Len(t.subs) : t.subs[i].name = dir}
Exists(t, dir, name) ==
    IF dir = <<>> THEN name \in FileNamesIn(t.root)
    ELSE \E i \in SubIndex(t, dir) : name \in FileNamesIn(t.subs[i].files)
AddFile(t, dir, f) ==
    IF dir = <<>> THEN [t EXCEPT !.root = Append(@, f)]
    ELSE IF SubIndex(t, dir) = {}
    THEN [t EXCEPT !.subs = Append(@, [name |-> dir, files |-> << f >>])]
    ELSE LET i == CHOOSE x \in SubIndex(t, dir) : TRUE
         IN [t EXCEPT !.subs[i].files = Append(@, f)]

\* os.path.relpath(os.path.join(root, file), project_path)
relative_path(dir, file) == IF dir = <<>> THEN file ELSE dir \o << "/" >> \o file

\* all_ignored_dirs, and dirs[:] = [d for d in dirs if d not in all_ignored_dirs]
all_ignored_dirs(dirs, ignore_patterns) ==
    DEFAULT_IGNORE_DIRS \cup
    {d \in dirs : \E i \in 1..Len(ignore_patterns) : fnmatch(d, ignore_patterns[i])}
Pruned(t, ignore_patterns) ==
    all_ignored_dirs({t.subs[i].name : i \in 1..Len(t.subs)}, ignore_patterns)

\* (a variant of Excluded that leaves out the test of the patterns)
ExcludedByExtension(e, ignore_patterns) ==
    splitext(e.file) \in DEFAULT_IGNORE_EXTENSIONS

\* the two tests that make the loop body continue before any size is read
Excluded(e, ignore_patterns) ==
    \/ splitext(e.file) \in DEFAULT_IGNORE_EXTENSIONS
    \/ \E i \in 1..Len(ignore_patterns) : fnmatch(e.path, ignore_patterns[i])

\* for root, dirs, files in os.walk(project_path, topdown=True), with the
\* pruning of dirs: the files the loop body sees, in order
Entries(dir, files) ==
    [i \in 1..Len(files) |->
        [path |-> relative_path(dir, files[i].name), file |-> files[i].name,
         size |-> files[i].size, mtime |-> files[i].mtime]]
RECURSIVE WalkSubs(_, _)
WalkSubs(subs, pruned) ==
    IF subs = <<>> THEN <<>>
    ELSE (IF subs[1].name \in pruned THEN <<>>
          ELSE Entries(subs[1].name, subs[1].files))
         \o WalkSubs(Tail(subs), pruned)
os_walk(t, ignore_patterns) ==
    Entries(<<>>, t.root) \o WalkSubs(t.subs, Pruned(t, ignore_patterns))

(* --------------------------- read_project_files ------------------------- *)
\* the two entries of skipped_files
SizeSkipText(relpath, file_size) ==
    relpath \o << " ", "(" >> \o << "size: " >> \o KBText(file_size) \o << "KB)" >>
TotalSkipText(relpath) ==
    relpath \o << " ", "(" >> \o << "total size limit reached)" >>

\* the locals of read_project_files before the first pass
StartOfScan(t, ignore_patterns, max_file_size, max_total_size, enable) ==
    [pc |-> "pass1",
     ignore_patterns |-> ignore_patterns,
     max_file_size |-> max_file_size,
     max_total_size |-> max_total_size,
     enable_static_analysis |-> enable,
     walk |-> os_walk(t, ignore_patterns),
     i |-> 1,
     file_count |-> 0,
     total_size |-> 0,
     skipped_files |-> <<>>,
     admitted |-> <<>>,         \* the paths counted in file_count, in order
     skips |-> <<>>,            \* the skipped paths with the test that skipped them
     processed_files |-> 0,
     all_files_content |-> <<>>,
     static_analysis_results |-> <<>>,
     warnings |-> 0]
NoScan == [StartOfScan(EmptyTree, <<>>, 0, 0, FALSE) EXCEPT !.pc = "idle"]

\* (a variant of OverTotal that compares the file alone with the total limit)
OverTotalAlone(total_size, file_size, max_total_size) == file_size > max_total_size

\* the cumulative test of the first pass
OverTotal(total_size, file_size, max_total_size) ==
    total_size + file_size > max_total_size

\* (a variant of Pass1Body that adds the size to total_size before the tests)
Pass1BodyAddsFirst(s, e) ==
    IF Excluded(e, s.ignore_patterns) THEN s
    ELSE IF e.size = NoStat THEN s
    ELSE IF e.size > s.max_file_size
    THEN [s EXCEPT !.skipped_files = Append(@, SizeSkipText(e.path, e.size)),
                   !.skips = Append(@, [path |-> e.path, reason |-> "single-file-size-exceeded"]),
                   !.total_size = @ + e.size]
    ELSE IF OverTotal(s.total_size, e.size, s.max_total_size)
    THEN [s EXCEPT !.skipped_files = Append(@, TotalSkipText(e.path)),
                   !.skips = Append(@, [path |-> e.path, reason |-> "cumulative-budget-exceeded"]),
                   !.total_size = @ + e.size]
    ELSE [s EXCEPT !.file_count = @ + 1,
                   !.total_size = @ + e.size,
                   !.admitted = Append(@, e.path)]

\* one turn of the first pass's loop body, for entry e
Pass1Body(s, e) ==
    IF Excluded(e, s.ignore_patterns) THEN s
    ELSE IF e.size = NoStat THEN s
    ELSE IF e.size > s.max_file_size
    THEN [s EXCEPT !.skipped_files = Append(@, SizeSkipText(e.path, e.size)),
                   !.skips = Append(@, [path |-> e.path, reason |-> "single-file-size-exceeded"])]
    ELSE IF OverTotal(s.total_size, e.size, s.max_total_size)
    THEN [s EXCEPT !.skipped_files = Append(@, TotalSkipText(e.path)),
                   !.skips = Append(@, [path |-> e.path, reason |-> "cumulative-budget-exceeded"])]
    ELSE [s EXCEPT !.file_count = @ + 1,
                   !.total_size = @ + e.size,
                   !.admitted = Append(@, e.path)]

\* relative_path in [f.split(' (')[0] for f in skipped_files]
SkippedInPass1(s, relpath) ==
    \E i \in 1..Len(s.skipped_files) : SplitHead(s.skipped_files[i]) = relpath

\* one turn of the second pass's loop body, for entry e; readable: open and
\* read succeed
Pass2Body(s, e, readable) ==
    IF Excluded(e, s.ignore_patterns) THEN s
    ELSE IF e.size = NoStat THEN s
    ELSE IF e.size > s.max_file_size \/ SkippedInPass1(s, e.path) THEN s
    ELSE IF ~readable THEN [s EXCEPT !.warnings = @ + 1]
    ELSE [s EXCEPT !.all_files_content = Append(@, e.path),
                   !.static_analysis_results =
                       IF s.enable_static_analysis THEN Append(@, e.path) ELSE @,
                   !.processed_files = @ + 1]

\* the first pass from entry j on, and the second pass with every file readable
RECURSIVE Pass1From(_, _)
Pass1From(s, j) ==
    IF j > Len(s.walk) THEN s ELSE Pass1From(Pass1Body(s, s.walk[j]), j + 1)
RECURSIVE Pass2From(_, _, _)
Pass2From(s, j, readable) ==
    IF j > Len(s.walk) THEN s
    ELSE Pass2From(Pass2Body(s, s.walk[j], readable), j + 1, readable)

\* (a variant of NoFilesCounted that never ends the run)
NeverEmpty(s) == FALSE

\* if file_count == 0: the run ends with "No readable files found"
NoFilesCounted(s) == s.file_count = 0

(* ------------------------ calculate_project_hash ------------------------ *)
\* the order of str comparison on the characters that occur in names
CharOrder == << " ", "(", ".", "/", "0", "1", "2", "3", "4", "5", "6", "7", "8",
                "9", "_", "a", "b", "c", "d", "e", "n", "o", "v" >>
CharRank(c) == CHOOSE i \in 1..Len(CharOrder) : CharOrder[i] = c
RECURSIVE StrLess(_, _)
StrLess(x, y) ==
    IF y = <<>> THEN FALSE
    ELSE IF x = <<>> THEN TRUE
    ELSE IF x[1] = y[1] THEN StrLess(Tail(x), Tail(y))
    ELSE CharRank(x[1]) < CharRank(y[1])

\* sorted(files): the listing of one directory in name order
RECURSIVE sorted(_)
sorted(files) ==
    IF files = <<>> THEN <<>>
    ELSE LET m == CHOOSE i \in 1..Len(files) :
                     \A j \in 1..Len(files) :
                        j = i \/ StrLess(files[i].name, files[j].name)
             rest == [k \in 1..(Len(files) - 1) |->
                         IF k < m THEN files[k] ELSE files[k + 1]]
         IN << files[m] >> \o sorted(rest)

\* str(stat.st_mtime) of a float holding a whole number of seconds
MTimeText(mtime) == Digits(mtime) \o << ".", "0" >>

\* what one file feeds to hasher.update
HashedOf(e, ignore_patterns) ==
    IF Excluded(e, ignore_patterns) THEN <<>>
    ELSE IF e.size = NoStat THEN e.path
    ELSE e.path \o MTimeText(e.mtime) \o Digits(e.size)
RECURSIVE HashedOfAll(_, _)
HashedOfAll(entries, ignore_patterns) ==
    IF entries = <<>> THEN <<>>
    ELSE HashedOf(entries[1], ignore_patterns)
         \o HashedOfAll(Tail(entries), ignore_patterns)

\* the walk of calculate_project_hash: each listing of files sorted, the
\* subdirectories in the order os.walk meets them
HashWalk(t, ignore_patterns) ==
    os_walk([root |-> sorted(t.root),
             subs |-> [i \in 1..Len(t.subs) |->
                          [name |-> t.subs[i].name,
                           files |-> sorted(t.subs[i].files)]]],
            ignore_patterns)

\* hasher.hexdigest(): SHA-256 is taken to be one-to-one on what it was fed
hexdigest(fed) == fed

calculate_project_hash(t, ignore_patterns) ==
    hexdigest(HashedOfAll(HashWalk(t, ignore_patterns), ignore_patterns))

\* the same directory listed by os.scandir in another order
ListingOrders(n) ==
    {p \in [1..n -> 1..n] : \A i \in 1..n, j \in 1..n : p[i] = p[j] => i = j}
Reordered(q, p) == [i \in 1..Len(q) |-> q[p[i]]]
Listings(t) ==
    {[root |-> t.root, subs |-> Reordered(t.subs, p)] : p \in ListingOrders(Len(t.subs))}

(* -------------------- json.dump / json.load of a record ----------------- *)
\* one chunk json.dump hands to fp.write
Tok(kind, s, n) == [kind |-> kind, s |-> s, n |-> n]
LBrace == Tok("lbrace", "{", 0)
RBrace == Tok("rbrace", "}", 0)
Colon == Tok("colon", ": ", 0)
Comma == Tok("comma", ", ", 0)
KeyTok(name) == Tok("str", name, 0)
StrTok(text) == Tok("str", text, 0)

\* datetime.isoformat(): the JSON string holding the timestamp of hour t
isoformat(t) == Tok("str", "iso", t)
\* datetime.fromisoformat: the hour, or ValueError on any other string
IsIso(tok) == tok.kind = "str" /\ tok.s = "iso"
fromisoformat(tok) == tok.n

\* json.dump({"created": now.isoformat(), "result": result}, f): its chunks
cache_data(created, result) ==
    << LBrace, KeyTok("created"), Colon, isoformat(created), Comma,
       KeyTok("result"), Colon, StrTok(result), RBrace >>

\* the first n elements of s
Prefix(s, n) == [i \in 1..n |-> s[i]]

\* json.load of a file's chunks: a dict of string members, another JSON
\* value, or a JSONDecodeError
IsMembers(m) ==
    /\ Len(m) % 4 = 3
    /\ \A i \in 1..Len(m) :
         CASE i % 4 = 1 -> m[i].kind = "str"
           [] i % 4 = 2 -> m[i].kind = "colon"
           [] i % 4 = 3 -> m[i].kind = "str"
           [] OTHER -> m[i].kind = "comma"
json_load(c) ==
    IF Len(c) = 1 /\ c[1].kind = "str"
    THEN [kind |-> "other", members |-> <<>>]
    ELSE IF Len(c) >= 2 /\ c[1] = LBrace /\ c[Len(c)] = RBrace
            /\ (Len(c) = 2 \/ IsMembers(SubSeq(c, 2, Len(c) - 1)))
    THEN [kind |-> "dict", members |-> SubSeq(c, 2, Len(c) - 1)]
    ELSE [kind |-> "invalid", members |-> <<>>]
\* d[name]: the positions of the member called name (the last one wins)
MemberAt(m, name) == {i \in 1..Len(m) : i % 4 = 1 /\ m[i].s = name /\ m[i].n = 0}
HasKey(d, name) == d.kind = "dict" /\ MemberAt(d.members, name) # {}
Lookup(d, name) ==
    LET at == MemberAt(d.members, name)
        i == CHOOSE x \in at : \A y \in at : y <= x
    IN d.members[i + 2]

(* ------------------------------ the cache ------------------------------ *)
\* files: a function from the keys that have a file to the file's chunks
WriteFile(files, key, content) ==
    [k \in DOMAIN files \cup {key} |-> IF k = key THEN content ELSE files[k]]
RemoveFile(files, key) == [k \in DOMAIN files \ {key} |-> files[k]]
NoFiles == [k \in {} |-> <<>>]

\* (a variant of Expired that also expires an entry whose age equals the TTL)
ExpiredAtTTL(nowT, created, max_age_hours) == nowT - created >= max_age_hours

\* the expiry test of get_cached_result
Expired(nowT, created, max_age_hours) == nowT - created > max_age_hours

\* (a variant of get_cached_result whose except clause lets a JSONDecodeError
\* through)
get_cached_result_raising(dirExists, files, cache_key, max_age_hours, nowT, fault) ==
    LET miss == [ret |-> None, files |-> files, raised |-> FALSE] IN
    IF ~dirExists THEN miss
    ELSE IF cache_key \notin DOMAIN files THEN miss
    ELSE IF fault = "open" THEN miss
    ELSE LET d == json_load(files[cache_key]) IN
         IF d.kind = "invalid" THEN [miss EXCEPT !.raised = TRUE]
         ELSE IF d.kind # "dict" THEN miss
         ELSE IF ~HasKey(d, "created") THEN miss
         ELSE IF ~IsIso(Lookup(d, "created")) THEN miss
         ELSE IF Expired(nowT, fromisoformat(Lookup(d, "created")), max_age_hours)
              THEN IF fault = "remove" THEN miss
                   ELSE [ret |-> None, files |-> RemoveFile(files, cache_key),
                         raised |-> FALSE]
         ELSE IF ~HasKey(d, "result") THEN miss
         ELSE [ret |-> Some(Lookup(d, "result").s), files |-> files,
               raised |-> FALSE]

\* get_cached_result(cache_key, max_age_hours) at hour nowT.  fault is the
\* I/O failure the call meets: "none", "open" (the file cannot be opened or
\* read) or "remove" (os.remove fails).  Every exception is caught.
get_cached_result(dirExists, files, cache_key, max_age_hours, nowT, fault) ==
    LET miss == [ret |-> None, files |-> files, raised |-> FALSE] IN
    IF ~dirExists THEN miss
    ELSE IF cache_key \notin DOMAIN files THEN miss
    ELSE IF fault = "open" THEN miss
    ELSE LET d == json_load(files[cache_key]) IN
         IF d.kind # "dict" THEN miss
         ELSE IF ~HasKey(d, "created") THEN miss
         ELSE IF ~IsIso(Lookup(d, "created")) THEN miss
         ELSE IF Expired(nowT, fromisoformat(Lookup(d, "created")), max_age_hours)
              THEN IF fault = "remove" THEN miss
                   ELSE [ret |-> None, files |-> RemoveFile(files, cache_key),
                         raised |-> FALSE]
         ELSE IF ~HasKey(d, "result") THEN miss
         ELSE [ret |-> Some(Lookup(d, "result").s), files |-> files,
               raised |-> FALSE]

\* (a variant of OpenForWrite that keeps what the file holds, as mode 'a' does)
OpenForAppend(files, key) ==
    IF key \in DOMAIN files THEN files ELSE WriteFile(files, key, <<>>)

\* open(cache_file, 'w'): the file is created, or cut to nothing
OpenForWrite(files, key) == WriteFile(files, key, <<>>)

\* f.write of chunks: they follow what the open file holds
AppendFile(files, key, chunks) == WriteFile(files, key, files[key] \o chunks)

\* save_cached_result(cache_key, result) at hour nowT.  fault: "none",
\* "mkdir" (os.makedirs fails), "open" (open fails) or "write" (the write
\* fails after cut chunks).  Every exception becomes a warning.
save_cached_result(dirExists, files, cache_key, result, nowT, fault, cut) ==
    IF fault = "mkdir"
    THEN [dir |-> dirExists, files |-> files, warned |-> TRUE]
    ELSE IF fault = "open"
    THEN [dir |-> TRUE, files |-> files, warned |-> TRUE]
    ELSE LET opened == OpenForWrite(files, cache_key)
             chunks == cache_data(nowT, result)
         IN IF fault = "write"
            THEN [dir |-> TRUE,
                  files |-> AppendFile(opened, cache_key, Prefix(chunks, cut)),
                  warned |-> TRUE]
            ELSE [dir |-> TRUE,
                  files |-> AppendFile(opened, cache_key, chunks),
                  warned |-> FALSE]

(* ------------------------------ state ---------------------------------- *)
VARIABLES
    now,            \* the wall clock, in hours
    cacheDir,       \* whether CACHE_DIR exists
    cacheFiles,     \* the files of CACHE_DIR
    last,           \* the last cache operation: its arguments, what it found
                    \* and what it returned
    tree,           \* the project directory
    scan,           \* the locals of read_project_files
    hash,           \* the calls of calculate_project_hash on the tree as it is
    run,            \* one run of main: its arguments, its place, what it did
    calls           \* the calls of the cache functions that are under way in
                    \* processes running side by side

cacheVars == << now, cacheDir, cacheFiles, last >>
scanVars == << tree, scan >>
vars == << now, cacheDir, cacheFiles, last, tree, scan, hash, run, calls >>

\* a file that holds the whole record of a put
IsEntry(content) ==
    /\ Len(content) = 9
    /\ content[4].n \in 0..MaxTime /\ content[8].s \in Texts
    /\ content = cache_data(content[4].n, content[8].s)
EntryCreated(content) == content[4].n
EntryResult(content) == content[8].s

\* what a cache operation on key with TTL age finds: no directory, no file,
\* an entry within its TTL, an entry past it, or a file that is no entry
Found(key, age) ==
    IF ~cacheDir THEN "nodir"
    ELSE IF key \notin DOMAIN cacheFiles THEN "nofile"
    ELSE IF ~IsEntry(cacheFiles[key]) THEN "damaged"
    ELSE IF now - EntryCreated(cacheFiles[key]) <= age THEN "valid"
    ELSE "expired"

Op(op, key, text, age, fault, ret, warned) ==
    [op |-> op, key |-> key, text |-> text, age |-> age, fault |-> fault,
     ret |-> ret, warned |-> warned, at |-> now, found |-> Found(key, age),
     over |-> IF Found(key, age) \in {"valid", "expired"}
              THEN EntryResult(cacheFiles[key]) ELSE "",
     chain |-> /\ op = "get" /\ last.op = "put" /\ last.key = key
               /\ last.fault = "none" /\ last.over \notin {"", last.text}]
NoOp == [op |-> "none", key |-> <<>>, text |-> "", age |-> 0, fault |-> "none",
         ret |-> None, warned |-> FALSE, at |-> 0, found |-> "nodir",
         over |-> "", chain |-> FALSE]

\* where a failing write stops: after any number of chunks but the last
CutPoints == 0..(Len(cache_data(0, "")) - 1)

InitCache ==
    /\ now = 0
    /\ cacheDir = FALSE
    /\ cacheFiles = NoFiles
    /\ last = NoOp
InitScan ==
    /\ tree = EmptyTree
    /\ scan = NoScan
NoHash == [ignore_patterns |-> <<>>, runs |-> <<>>]
InitHash == hash = NoHash
NoRun == [pc |-> "idle", use_cache |-> FALSE, api_key |-> FALSE,
          ignore_patterns |-> <<>>, max_file_size |-> 0, max_total_size |-> 0,
          no_static_analysis |-> FALSE,
          cache_duration_hours |-> 0, cache_key |-> None_key,
          cached_result |-> None, diagnosis |-> "", diagnosis_ok |-> FALSE,
          lookup |-> "none", report |-> [kind |-> "none", text |-> ""],
          trace |-> <<>>]
InitMain == run = NoRun

\* an hour passes
Tick ==
    /\ now < MaxTime
    /\ now' = now + 1
    /\ UNCHANGED << calls, cacheDir, cacheFiles, last, tree, scan, hash, run >>

\* a call of save_cached_result
Put ==
    \E key \in Keys, result \in Results,
       fault \in {"none", "mkdir", "open", "write"}, cut \in CutPoints :
       /\ fault = "mkdir" => ~cacheDir
       /\ fault # "write" => cut = 0
       /\ LET r == save_cached_result(cacheDir, cacheFiles, key, result, now,
                                      fault, cut)
          IN /\ cacheDir' = r.dir
             /\ cacheFiles' = r.files
             /\ last' = Op("put", key, result, 0, fault, None, r.warned)
       /\ UNCHANGED << calls, now, tree, scan, hash, run >>

\* a call of get_cached_result
Get ==
    \E key \in Keys, max_age_hours \in 0..MaxAge :
       LET r == get_cached_result(cacheDir, cacheFiles, key, max_age_hours,
                                  now, "none")
       IN /\ cacheFiles' = r.files
          /\ last' = Op("get", key, "", max_age_hours, "none", r.ret, FALSE)
          /\ UNCHANGED << calls, now, cacheDir, tree, scan, hash, run >>

NoPut == [pc |-> "idle", created |-> 0, pos |-> 0, linked |-> FALSE]
NoGet == [pc |-> "idle", max_age_hours |-> 0, ret |-> None,
          removed |-> [some |-> FALSE, content |-> <<>>, at |-> 0]]
NoCalls == [put1 |-> NoPut, put2 |-> NoPut, get |-> NoGet]
InitCalls == calls = NoCalls
Init == InitCache /\ InitScan /\ InitHash /\ InitMain /\ InitCalls
Next == Tick \/ Put \/ Get
Spec == Init /\ [][Next]_vars

(* --------------------- read_project_files, step by step ----------------- *)
DirNames == { <<"d">> }
FileNames == { <<"a">>, <<"a", " ", "(", "b">>, <<"c", ".", "o">> }
PatternLists == { <<>>, << <<"a", "*">> >> }
FileSizeLimits == {1, 2}
TotalSizeLimits == {1, 3}

\* a file appears in the project directory
CreateFile(dirs, names, sizes, mtimes) ==
    /\ FileCount(tree) < MaxFiles
    /\ \E dir \in dirs \cup {<<>>}, name \in names, size \in sizes, mtime \in mtimes :
          /\ ~Exists(tree, dir, name)
          /\ tree' = AddFile(tree, dir, [name |-> name, size |-> size, mtime |-> mtime])

ScanCreateFile ==
    /\ scan.pc = "idle"
    /\ CreateFile(DirNames, FileNames, (0..MaxSize) \cup {NoStat}, {0})
    /\ UNCHANGED << calls, cacheVars, scan, hash, run >>

\* read_project_files is called
ScanStart ==
    /\ scan.pc = "idle"
    /\ \E pats \in PatternLists, mf \in FileSizeLimits, mt \in TotalSizeLimits :
          scan' = StartOfScan(tree, pats, mf, mt, TRUE)
    /\ UNCHANGED << calls, cacheVars, tree, hash, run >>

\* the first pass takes the next file
Pass1Step ==
    /\ scan.pc = "pass1"
    /\ scan.i <= Len(scan.walk)
    /\ scan' = [Pass1Body(scan, scan.walk[scan.i]) EXCEPT !.i = scan.i + 1]
    /\ UNCHANGED << calls, cacheVars, tree, hash, run >>

\* after the first pass: if file_count == 0: sys.exit(1)
Pass1End ==
    /\ scan.pc = "pass1"
    /\ scan.i > Len(scan.walk)
    /\ scan' = [scan EXCEPT !.pc = IF NoFilesCounted(scan) THEN "exit" ELSE "pass2",
                            !.i = 1]
    /\ UNCHANGED << calls, cacheVars, tree, hash, run >>

\* the second pass takes the next file
Pass2Step ==
    /\ scan.pc = "pass2"
    /\ scan.i <= Len(scan.walk)
    /\ \E readable \in BOOLEAN :
          scan' = [Pass2Body(scan, scan.walk[scan.i], readable) EXCEPT !.i = scan.i + 1]
    /\ UNCHANGED << calls, cacheVars, tree, hash, run >>

\* read_project_files returns
Pass2End ==
    /\ scan.pc = "pass2"
    /\ scan.i > Len(scan.walk)
    /\ scan' = [scan EXCEPT !.pc = "done"]
    /\ UNCHANGED << calls, cacheVars, tree, hash, run >>

NextScan ==
    ScanCreateFile \/ ScanStart \/ Pass1Step \/ Pass1End \/ Pass2Step \/ Pass2End
SpecScan == Init /\ [][NextScan]_vars

(* ------------------------- the cache: properties ------------------------ *)
\* the step is a call of get_cached_result / save_cached_result
IsGetStep == now' = now /\ last'.op = "get"
IsPutStep == now' = now /\ last'.op = "put"
OthersKept(key) ==
    \A o \in (DOMAIN cacheFiles \cup DOMAIN cacheFiles') \ {key} :
       /\ o \in DOMAIN cacheFiles /\ o \in DOMAIN cacheFiles'
       /\ cacheFiles'[o] = cacheFiles[o]

\* C1: get(key, maxAgeHours) returns the stored result exactly when the key
\* holds an entry with now - createdAt <= maxAgeHours (an age equal to the TTL
\* is still returned) and returns absent otherwise; a get on a valid entry
\* changes nothing; a get on an expired entry deletes it, so the key is
\* absent afterwards; and an entry, expired or not, is left as it is by every
\* step that is not a get or a put of its key.
C1_GetAct ==
    IsGetStep =>
      LET key == last'.key
          found == Found(key, last'.age)
      IN /\ found = "valid" =>
              /\ last'.ret = Some(EntryResult(cacheFiles[key]))
              /\ cacheFiles' = cacheFiles
         /\ found # "valid" => last'.ret = None
         /\ found = "expired" =>
              /\ key \notin DOMAIN cacheFiles'
              /\ OthersKept(key)
         /\ found \in {"nodir", "nofile", "damaged"} => cacheFiles' = cacheFiles
         /\ cacheDir' = cacheDir
C1_StaysAct ==
    \A key \in DOMAIN cacheFiles :
       (IsEntry(cacheFiles[key]) /\ (now' # now \/ last'.key # key)) =>
          /\ key \in DOMAIN cacheFiles'
          /\ cacheFiles'[key] = cacheFiles[key]
C1_GetContract == [][C1_GetAct /\ C1_StaysAct]_vars
\* a get found an expired entry, returned absent and the file is gone
C1_Witness ==
    /\ last.op = "get" /\ last.found = "expired" /\ last.ret = None
    /\ last.key \notin DOMAIN cacheFiles

\* C2: a put that completes leaves under its key exactly the record of its
\* own result with createdAt = now, whatever the key held before, and leaves
\* every other key's file as it was; the next get of that key returns that
\* result when no more than maxAge hours have passed since the put (always,
\* when it follows at once) and absent otherwise, never the older result.
C2_PutAct ==
    (IsPutStep /\ last'.fault = "none") =>
       /\ last'.key \in DOMAIN cacheFiles'
       /\ cacheFiles'[last'.key] = cache_data(now, last'.text)
       /\ cacheDir'
C2_OthersAct == IsPutStep => OthersKept(last'.key)
C2_GetAfterPutAct ==
    (IsGetStep /\ last.op = "put" /\ last.fault = "none" /\ last'.key = last.key) =>
       /\ now - last.at <= last'.age => last'.ret = Some(last.text)
       /\ now - last.at > last'.age => last'.ret = None
C3_AllOrNothingAct ==
    (IsPutStep /\ last'.fault # "none") =>
       /\ cacheFiles' = cacheFiles
       /\ last'.warned
C3_AllOrNothing == [][C3_AllOrNothingAct]_vars

(* -------------------- calculate_project_hash, called twice --------------- *)
HashDirNames == { <<"d">>, <<"e">> }
HashFileNames == { <<"a">>, <<"c", ".", "o">> }
HashSizes == {1, NoStat}
HashMTimes == {1, 2}

HashCreateFile ==
    /\ hash.runs = <<>>
    /\ CreateFile(HashDirNames, HashFileNames, HashSizes, HashMTimes)
    /\ UNCHANGED << calls, cacheVars, scan, hash, run >>

\* time passes between the calls
HashTick ==
    /\ hash.runs # <<>>
    /\ now < MaxTime
    /\ now' = now + 1
    /\ UNCHANGED << calls, cacheDir, cacheFiles, last, tree, scan, hash, run >>

\* calculate_project_hash is called on the tree, which os.walk lists in some
\* order; the second call gets the pattern list of the first
HashCall ==
    /\ Len(hash.runs) < 2
    /\ \E pats \in PatternLists, listing \in Listings(tree) :
          /\ hash.runs # <<>> => pats = hash.ignore_patterns
          /\ hash' = [ignore_patterns |-> pats,
                      runs |-> Append(hash.runs,
                                  [dirs |-> [i \in 1..Len(listing.subs) |->
                                                listing.subs[i].name],
                                   at |-> now,
                                   digest |-> calculate_project_hash(listing, pats)])]
    /\ UNCHANGED << calls, cacheVars, tree, scan, run >>

NextHash == HashCreateFile \/ HashTick \/ HashCall
SpecHash == Init /\ [][NextHash]_vars

(* ------------- read_project_files on a tree with ignored parts ---------- *)
PruneDirNames == { <<"e", "n", "v">>, <<"d">> }
PruneFileNames == { <<"a">>, <<"c", ".", "o">> }
PrunePatternLists == { <<>>, << <<"d">> >>, << <<"*", "a">> >> }

PruneCreateFile ==
    /\ scan.pc = "idle"
    /\ CreateFile(PruneDirNames, PruneFileNames, {1}, {0})
    /\ UNCHANGED << calls, cacheVars, scan, hash, run >>

\* read_project_files is called
PruneStart ==
    /\ scan.pc = "idle"
    /\ \E pats \in PrunePatternLists, mf \in FileSizeLimits, mt \in TotalSizeLimits :
          scan' = StartOfScan(tree, pats, mf, mt, TRUE)
    /\ UNCHANGED << calls, cacheVars, tree, hash, run >>

NextPrune ==
    PruneCreateFile \/ PruneStart \/ Pass1Step \/ Pass1End \/ Pass2Step \/ Pass2End
SpecPrune == Init /\ [][NextPrune]_vars

(* ------------- calculate_project_hash on a tree that changes ------------ *)
SensFileNames == { <<"a">>, <<"a", "1">> }
SensSizes == {1, NoStat}
SensMTimes == {1, 11}

\* the (relative path, mtime, size) tuples the walk fingerprints; a file whose
\* os.stat fails has no mtime and no size
TupleOf(e) == IF e.size = NoStat THEN [path |-> e.path, mtime |-> NoStat, size |-> NoStat]
              ELSE [path |-> e.path, mtime |-> e.mtime, size |-> e.size]
FingerprintedTuples(t, ignore_patterns) ==
    LET walk == HashWalk(t, ignore_patterns)
    IN {TupleOf(walk[j]) : j \in {i \in 1..Len(walk) : ~Excluded(walk[i], ignore_patterns)}}

\* the file system between two runs: a file is added, removed, or written to
SensCreateFile ==
    /\ Len(hash.runs) < 2
    /\ CreateFile({}, SensFileNames, SensSizes, SensMTimes)
    /\ UNCHANGED << calls, cacheVars, scan, hash, run >>
SensRemoveFile ==
    /\ Len(hash.runs) = 1
    /\ \E i \in 1..Len(tree.root) :
          tree' = [tree EXCEPT !.root = [k \in 1..(Len(@) - 1) |->
                                           IF k < i THEN @[k] ELSE @[k + 1]]]
    /\ UNCHANGED << calls, cacheVars, scan, hash, run >>
SensTouchFile ==
    /\ Len(hash.runs) = 1
    /\ \E i \in 1..Len(tree.root), size \in SensSizes, mtime \in SensMTimes :
          /\ << size, mtime >> # << tree.root[i].size, tree.root[i].mtime >>
          /\ tree' = [tree EXCEPT !.root[i].size = size, !.root[i].mtime = mtime]
    /\ UNCHANGED << calls, cacheVars, scan, hash, run >>

\* calculate_project_hash is called; the second call gets the pattern list of
\* the first
SensCall ==
    /\ Len(hash.runs) < 2
    /\ \E pats \in PatternLists :
          /\ hash.runs # <<>> => pats = hash.ignore_patterns
          /\ hash' = [ignore_patterns |-> pats,
                      runs |-> Append(hash.runs,
                                  [dirs |-> <<>>, at |-> now,
                                   tuples |-> FingerprintedTuples(tree, pats),
                                   digest |-> calculate_project_hash(tree, pats)])]
    /\ UNCHANGED << calls, cacheVars, tree, scan, run >>

NextSens == SensCreateFile \/ SensRemoveFile \/ SensTouchFile \/ SensCall
SpecSens == Init /\ [][NextSens]_vars

(* ------------- main: the cache key and the scan of two runs ------------- *)
KeyFileNames == { <<"a">>, <<"b">>, <<"c", ".", "o">> }

KeyCreateFile ==
    /\ hash.runs = <<>>
    /\ CreateFile({}, KeyFileNames, 1..MaxSize, {1})
    /\ UNCHANGED << calls, cacheVars, scan, hash, run >>

\* one run of main with the cache in use that finds no entry: the key it
\* computes, and what the first pass of its scan admits under its limits; the
\* second run has the root and the pattern list of the first
KeyRun ==
    /\ Len(hash.runs) < 2
    /\ \E pats \in PatternLists, mf \in FileSizeLimits, mt \in TotalSizeLimits :
          LET s == Pass1From(StartOfScan(tree, pats, mf, mt, TRUE), 1)
          IN /\ hash.runs # <<>> => pats = hash.ignore_patterns
             /\ hash' = [ignore_patterns |-> pats,
                         runs |-> Append(hash.runs,
                                     [dirs |-> <<>>, at |-> now,
                                      digest |-> calculate_project_hash(tree, pats),
                                      hashed |-> {t.path : t \in FingerprintedTuples(tree, pats)},
                                      admitted |-> Range(s.admitted),
                                      skipped |-> {s.skips[j].path : j \in 1..Len(s.skips)}])]
    /\ UNCHANGED << calls, cacheVars, tree, scan, run >>

NextKey == KeyCreateFile \/ KeyRun
SpecKey == Init /\ [][NextKey]_vars

(* ------------------------------- main ----------------------------------- *)
MainFileNames == { <<"a">>, <<"c", ".", "o">> }
MainLimits == { [file |-> 2, total |-> 3] }
MainTTLs == {0, 1}
\* what get_diagnosis returns: the provider's text, or the text of a failure
Diagnoses == [ok : {TRUE}, text : Results] \cup {[ok |-> FALSE, text |-> ErrorText]}

\* what other programs and the disk may leave in a cache file
Damaged ==
    { <<>>,
      << LBrace, RBrace >>,
      << StrTok("A") >>,
      << LBrace, KeyTok("result"), Colon, StrTok("A"), RBrace >>,
      << LBrace, KeyTok("created"), Colon, isoformat(0), RBrace >>,
      << LBrace, KeyTok("created"), Colon, StrTok("yesterday"), Comma,
         KeyTok("result"), Colon, StrTok("A"), RBrace >> }

Terminal == {"done", "exit_empty", "exit_no_api_key", "crash"}

MainCreateFile ==
    /\ run.pc = "idle"
    /\ CreateFile({}, MainFileNames, {1}, {1})
    /\ UNCHANGED << calls, cacheVars, scan, hash, run >>

MainTick ==
    /\ run.pc = "idle"
    /\ now < MaxAge
    /\ now' = now + 1
    /\ UNCHANGED << calls, cacheDir, cacheFiles, last, tree, scan, hash, run >>

\* something else rewrites a cache file
MainDamage ==
    /\ run.pc = "idle"
    /\ cacheDir
    /\ \E key \in DOMAIN cacheFiles, content \in Damaged :
          cacheFiles' = WriteFile(cacheFiles, key, content)
    /\ UNCHANGED << calls, now, cacheDir, last, tree, scan, hash, run >>

\* main is started: args and config
MainStart ==
    /\ run.pc = "idle"
    /\ \E use_cache \in BOOLEAN, api_key \in BOOLEAN, pats \in PatternLists,
          lim \in MainLimits, no_static \in BOOLEAN, ttl \in MainTTLs :
          run' = [NoRun EXCEPT !.pc = "cache", !.use_cache = use_cache,
                               !.api_key = api_key, !.ignore_patterns = pats,
                               !.max_file_size = lim.file,
                               !.max_total_size = lim.total,
                               !.no_static_analysis = no_static,
                               !.cache_duration_hours = ttl]
    /\ scan' = NoScan
    /\ UNCHANGED << calls, cacheVars, tree, hash >>

\* "Check cache first": the fingerprint, the lookup and, on a hit, the cached
\* report and return
CheckCache ==
    /\ run.pc = "cache"
    /\ run.use_cache
    /\ \E fault \in {"none", "open", "remove"} :
          LET key == calculate_project_hash(tree, run.ignore_patterns)
              found == Found(key, run.cache_duration_hours)
              r == get_cached_result(cacheDir, cacheFiles, key,
                                     run.cache_duration_hours, now, fault)
              hit == r.ret.some /\ r.ret.text # ""
          IN /\ fault = "open" => found \in {"valid", "expired", "damaged"}
             /\ fault = "remove" => found = "expired"
             /\ cacheFiles' = r.files
             /\ run' = [run EXCEPT
                   !.cache_key = [some |-> TRUE, key |-> key],
                   !.cached_result = r.ret,
                   !.lookup = IF fault = "none" THEN found ELSE fault,
                   !.trace = @ \o << "fingerprint", "cache_get" >>
                               \o (IF hit /\ ~r.raised THEN << "report_cached" >> ELSE <<>>),
                   !.report = IF hit /\ ~r.raised
                              THEN [kind |-> "cached", text |-> r.ret.text] ELSE @,
                   !.pc = IF r.raised THEN "crash"
                          ELSE IF hit THEN "done" ELSE "api_key"]
    /\ UNCHANGED << calls, now, cacheDir, last, tree, scan, hash >>

\* --no-cache, or cache_enabled false: no cache step
SkipCache ==
    /\ run.pc = "cache"
    /\ ~run.use_cache
    /\ run' = [run EXCEPT !.pc = "api_key"]
    /\ UNCHANGED << calls, cacheVars, tree, scan, hash >>

\* get_api_key: sys.exit(1) when the environment variable is not set
GetApiKey ==
    /\ run.pc = "api_key"
    /\ run' = [run EXCEPT !.trace = Append(@, "api_key"),
                          !.pc = IF run.api_key THEN "scan" ELSE "exit_no_api_key"]
    /\ UNCHANGED << calls, cacheVars, tree, scan, hash >>

\* read_project_files up to the test of file_count
ScanPass1 ==
    /\ run.pc = "scan"
    /\ LET s == Pass1From(StartOfScan(tree, run.ignore_patterns, run.max_file_size,
                                       run.max_total_size, ~run.no_static_analysis), 1)
       IN /\ scan' = [s EXCEPT !.pc = IF NoFilesCounted(s) THEN "exit" ELSE "pass2"]
          /\ run' = [run EXCEPT !.trace = Append(@, "pass1"),
                                !.pc = IF NoFilesCounted(s) THEN "exit_empty" ELSE "pass2"]
    /\ UNCHANGED << calls, cacheVars, tree, hash >>

\* read_project_files from the second pass on, and the summary
ScanPass2 ==
    /\ run.pc = "pass2"
    /\ \E readable \in BOOLEAN :
          LET s == Pass2From(scan, 1, readable)
          IN /\ scan' = [s EXCEPT !.pc = "done"]
             /\ run' = [run EXCEPT
                   !.trace = @ \o << "pass2" >>
                               \o (IF s.static_analysis_results # <<>>
                                   THEN << "static_analysis" >> ELSE <<>>),
                   !.pc = "diagnose"]
    /\ UNCHANGED << calls, cacheVars, tree, hash >>

\* diagnosis = get_diagnosis(...)
Diagnose ==
    /\ run.pc = "diagnose"
    /\ \E d \in Diagnoses :
          run' = [run EXCEPT !.diagnosis = d.text, !.diagnosis_ok = d.ok,
                             !.trace = Append(@, "diagnosis"), !.pc = "save"]
    /\ UNCHANGED << calls, cacheVars, tree, scan, hash >>

\* "Cache the result"
SaveResult ==
    /\ run.pc = "save"
    /\ run.cache_key.some /\ run.use_cache
    /\ \E fault \in {"none", "mkdir", "open", "write"}, cut \in {0, 4} :
          /\ fault = "mkdir" => ~cacheDir
          /\ fault # "write" => cut = 0
          /\ LET r == save_cached_result(cacheDir, cacheFiles, run.cache_key.key,
                                         run.diagnosis, now, fault, cut)
             IN /\ cacheDir' = r.dir
                /\ cacheFiles' = r.files
    /\ run' = [run EXCEPT !.trace = Append(@, "cache_put"), !.pc = "report"]
    /\ UNCHANGED << calls, now, last, tree, scan, hash >>

NoSave ==
    /\ run.pc = "save"
    /\ ~(run.cache_key.some /\ run.use_cache)
    /\ run' = [run EXCEPT !.pc = "report"]
    /\ UNCHANGED << calls, cacheVars, tree, scan, hash >>

\* the report is printed and written
Report ==
    /\ run.pc = "report"
    /\ run' = [run EXCEPT !.report = [kind |-> "fresh", text |-> run.diagnosis],
                          !.trace = Append(@, "report"), !.pc = "done"]
    /\ UNCHANGED << calls, cacheVars, tree, scan, hash >>

\* the process has ended; main can be started again
MainEnd ==
    /\ run.pc \in Terminal
    /\ run' = NoRun
    /\ scan' = NoScan
    /\ UNCHANGED << calls, cacheVars, tree, hash >>

NextMain ==
    \/ MainCreateFile \/ MainTick \/ MainDamage \/ MainStart \/ CheckCache
    \/ SkipCache \/ GetApiKey \/ ScanPass1 \/ ScanPass2 \/ Diagnose
    \/ SaveResult \/ NoSave \/ Report \/ MainEnd
SpecMain == Init /\ [][NextMain]_vars

(* ------- get_cached_result and save_cached_result side by side --------- *)
\* two processes save under one key while a third looks it up
RaceKey == << "k" >>
RacePuts == {"put1", "put2"}
RaceResult(p) == IF p = "put1" THEN "A" ELSE "B"
Hole == Tok("nul", "", 0)

\* f.write of one chunk at the writer's own file position, chunk number pos:
\* it replaces what is there, and a position past the end leaves a hole
WriteAt(content, pos, chunk) ==
    [i \in 1..(IF Len(content) > pos THEN Len(content) ELSE pos) |->
        IF i = pos THEN chunk
        ELSE IF i <= Len(content) THEN content[i] ELSE Hole]

RaceTick ==
    /\ now < MaxTime
    /\ \E c \in {"put1", "put2", "get"} : calls[c].pc # "done"
    /\ now' = now + 1
    /\ UNCHANGED << cacheDir, cacheFiles, last, tree, scan, hash, run, calls >>

\* save_cached_result up to the open: os.makedirs, cache_data with the time
\* of now, open(cache_file, 'w')
PutOpen ==
    \E p \in RacePuts :
       /\ calls[p].pc = "idle"
       /\ cacheDir' = TRUE
       /\ cacheFiles' = OpenForWrite(cacheFiles, RaceKey)
       /\ calls' = [calls EXCEPT ![p] = [pc |-> "writing", created |-> now,
                                           pos |-> 0, linked |-> TRUE]]
       /\ UNCHANGED << now, last, tree, scan, hash, run >>

\* json.dump: the next chunk goes to the file the process has open; after the
\* last one the file is closed and save_cached_result returns
PutWrite ==
    \E p \in RacePuts :
       LET c == calls[p]
           chunks == cache_data(c.created, RaceResult(p))
       IN /\ c.pc = "writing"
          /\ cacheFiles' = IF c.linked
                            THEN WriteFile(cacheFiles, RaceKey,
                                           WriteAt(cacheFiles[RaceKey], c.pos + 1,
                                                   chunks[c.pos + 1]))
                            ELSE cacheFiles
          /\ calls' = [calls EXCEPT ![p].pos = c.pos + 1,
                                     ![p].pc = IF c.pos + 1 = Len(chunks)
                                               THEN "done" ELSE "writing"]
          /\ UNCHANGED << now, cacheDir, last, tree, scan, hash, run >>

\* get_cached_result: the two os.path.exists tests
GetCheck ==
    /\ calls.get.pc = "idle"
    /\ \E max_age_hours \in MainTTLs :
          calls' = [calls EXCEPT !.get.max_age_hours = max_age_hours,
                                 !.get.pc = IF cacheDir /\ RaceKey \in DOMAIN cacheFiles
                                            THEN "read" ELSE "done"]
    /\ UNCHANGED << cacheVars, tree, scan, hash, run >>

\* get_cached_result: open, json.load, and the test of the age; the record is
\* returned, or the file is found expired, or an exception gives None
GetRead ==
    /\ calls.get.pc = "read"
    /\ LET held == IF RaceKey \in DOMAIN cacheFiles
                   THEN WriteFile(NoFiles, RaceKey, cacheFiles[RaceKey]) ELSE NoFiles
           r == get_cached_result(TRUE, held, RaceKey, calls.get.max_age_hours,
                                  now, "none")
           expired == RaceKey \in DOMAIN held /\ RaceKey \notin DOMAIN r.files
       IN calls' = [calls EXCEPT !.get.ret = r.ret,
                                 !.get.pc = IF expired THEN "remove" ELSE "done"]
    /\ UNCHANGED << cacheVars, tree, scan, hash, run >>

\* get_cached_result: os.remove(cache_file) and return None; a process that
\* has the file open goes on writing to a file that no longer has a name
GetRemove ==
    /\ calls.get.pc = "remove"
    /\ cacheFiles' = RemoveFile(cacheFiles, RaceKey)
    /\ calls' = [calls EXCEPT
          !.get.pc = "done",
          !.get.removed = IF RaceKey \in DOMAIN cacheFiles
                          THEN [some |-> TRUE, content |-> cacheFiles[RaceKey], at |-> now]
                          ELSE @,
          !.put1.linked = FALSE,
          !.put2.linked = FALSE]
    /\ UNCHANGED << now, cacheDir, last, tree, scan, hash, run >>

NextRace == RaceTick \/ PutOpen \/ PutWrite \/ GetCheck \/ GetRead \/ GetRemove
SpecRace == Init /\ [][NextRace]_vars

(* -------------------- calculate_project_hash: properties ----------------- *)
\* C10: two computations of the fingerprint of the same tree under the same
\* pattern list give the same digest, in whatever order the walk lists the
\* subdirectories and files and whenever they run.
C10_Deterministic ==
    Len(hash.runs) = 2 => hash.runs[1].digest = hash.runs[2].digest

(* ---------------------- read_project_files: properties ------------------ *)
\* the entries the first pass has taken so far
Taken == IF scan.pc = "idle" THEN {}
         ELSE IF scan.pc = "pass1" THEN 1..(scan.i - 1)
         ELSE 1..Len(scan.walk)
\* the entries that reach the size tests
Sized(j) == /\ ~Excluded(scan.walk[j], scan.ignore_patterns)
            /\ scan.walk[j].size # NoStat
IsAdmitted(j) == scan.walk[j].path \in Range(scan.admitted)
SkippedFor(j, reason) ==
    [path |-> scan.walk[j].path, reason |-> reason] \in Range(scan.skips)
RECURSIVE AdmittedBytes(_)
AdmittedBytes(j) ==
    IF j = 0 THEN 0
    ELSE AdmittedBytes(j - 1) + (IF IsAdmitted(j) THEN scan.walk[j].size ELSE 0)
Fits(j) == /\ scan.walk[j].size <= scan.max_file_size
           /\ AdmittedBytes(j - 1) + scan.walk[j].size <= scan.max_total_size

\* C7 (as claimed): once a file has been skipped because the cumulative budget
\* is exceeded, no file after it in traversal order is admitted.
C7_AllLaterSkipped ==
    \A j \in Taken, k \in Taken :
       (j < k /\ SkippedFor(j, "cumulative-budget-exceeded")) => ~IsAdmitted(k)
\* C7 (amended): after a file has been skipped because the cumulative budget is
\* exceeded, a later file at least as large is skipped too, and any later file
\* is admitted exactly when it is within maxFileSize and fits in what the
\* admitted files have left of maxTotalSize.
C7_LaterFilesByBudget ==
    \A j \in Taken, k \in Taken :
       (j < k /\ SkippedFor(j, "cumulative-budget-exceeded") /\ Sized(k)) =>
          /\ scan.walk[k].size >= scan.walk[j].size => ~IsAdmitted(k)
          /\ IsAdmitted(k) <=> Fits(k)
\* a file was skipped for the budget, a later one as large was skipped and a
\* still later, smaller one was admitted
C7_Witness ==
    \E j \in Taken, k \in Taken, l \in Taken :
       /\ j < k /\ k < l
       /\ SkippedFor(j, "cumulative-budget-exceeded")
       /\ scan.walk[k].size >= scan.walk[j].size /\ ~IsAdmitted(k) /\ Sized(k)
       /\ IsAdmitted(l)

\* C8: every file that reaches the size tests is skipped as
\* single-file-size-exceeded when size > maxFileSize, else skipped as
\* cumulative-budget-exceeded when runningTotal + size > maxTotalSize, else
\* admitted; runningTotal is at every step the sum of the admitted sizes and
\* at most maxTotalSize, every admitted file is at most maxFileSize, and
\* file_count counts the admitted files.
C8_Rule(j) ==
    LET e == scan.walk[j]
        single == SkippedFor(j, "single-file-size-exceeded")
        cumulative == SkippedFor(j, "cumulative-budget-exceeded")
    IN IF ~Sized(j) THEN ~IsAdmitted(j) /\ ~single /\ ~cumulative
       ELSE IF e.size > scan.max_file_size
       THEN single /\ ~cumulative /\ ~IsAdmitted(j)
            /\ SizeSkipText(e.path, e.size) \in Range(scan.skipped_files)
       ELSE IF AdmittedBytes(j - 1) + e.size > scan.max_total_size
       THEN cumulative /\ ~single /\ ~IsAdmitted(j)
            /\ TotalSkipText(e.path) \in Range(scan.skipped_files)
       ELSE IsAdmitted(j) /\ ~single /\ ~cumulative
C8_AdmissionRule ==
    /\ \A j \in Taken : C8_Rule(j)
    /\ \A j \in 1..Len(scan.walk) : j \notin Taken => ~IsAdmitted(j)
    /\ scan.total_size = AdmittedBytes(Len(scan.walk))
    /\ scan.total_size <= scan.max_total_size
    /\ scan.file_count = Len(scan.admitted)
    /\ Len(scan.skipped_files) = Len(scan.skips)
    /\ \A j \in Taken : IsAdmitted(j) => scan.walk[j].size <= scan.max_file_size
\* a first pass that admitted a file and skipped one for each reason
C8_Witness ==
    /\ scan.pc = "pass2"
    /\ \E j \in Taken, k \in Taken, l \in Taken :
          /\ SkippedFor(j, "single-file-size-exceeded")
          /\ SkippedFor(k, "cumulative-budget-exceeded")
          /\ IsAdmitted(l)

\* C9: when read_project_files returns without a read failure, the paths it
\* read are exactly the paths the first pass admitted, and processed_files
\* equals file_count.
C9_PassesAgree ==
    (scan.pc = "done" /\ scan.warnings = 0) =>
       /\ Range(scan.all_files_content) = Range(scan.admitted)
       /\ scan.processed_files = scan.file_count

(* ------------------------------ main: properties ------------------------ *)
Count(q, x) == Cardinality({i \in 1..Len(q) : q[i] = x})
\* the tree of this run has no file that passes the exclusion tests
AllExcluded ==
    LET walk == os_walk(tree, run.ignore_patterns)
    IN \A j \in 1..Len(walk) : Excluded(walk[j], run.ignore_patterns)
\* the steps of a run that found nothing in the cache, in order
MissTrace ==
    << "fingerprint", "cache_get", "api_key", "pass1", "pass2" >>
    \o (IF scan.static_analysis_results # <<>> THEN << "static_analysis" >> ELSE <<>>)
    \o << "diagnosis", "cache_put", "report" >>
\* what the lookup of a run met: a failure of the cache, or no entry at all
CacheFailures == {"nodir", "damaged", "open"}

\* C4: a run whose lookup met a missing cache directory, an unreadable file or
\* a file that does not parse to a record with a created time and a result
\* gets absent from get_cached_result and does not crash; when it ends with
\* a report it has gone through the same steps, in the same order, as a run
\* that found no entry, and its report is the fresh diagnosis.
C4_FailureIsMiss ==
    (run.lookup \in CacheFailures \cup {"nofile"}) =>
       /\ run.cached_result = None
       /\ run.pc # "crash"
       /\ run.report.kind # "cached"
       /\ run.pc = "done" =>
             /\ run.trace = MissTrace
             /\ run.report = [kind |-> "fresh", text |-> run.diagnosis]

C4_Witness ==
    /\ run.pc = "done"
    /\ run.lookup = "damaged"
    /\ run.report = [kind |-> "fresh", text |-> "A"]
    /\ IsEntry(cacheFiles[run.cache_key.key])

\* C5: in every run save_cached_result is called at most once, never after
\* a cached report was output, and never with the text of a diagnosis call
\* that failed; no cached report is the text of a failure.
C5_OnlySuccessCached ==
    /\ Count(run.trace, "cache_put") <= 1
    /\ "report_cached" \in Range(run.trace) => "cache_put" \notin Range(run.trace)
    /\ "cache_put" \in Range(run.trace) => run.diagnosis_ok
    /\ run.report.kind = "cached" => run.report.text # ErrorText

C11_Sensitive ==
    (Len(hash.runs) = 2 /\ hash.runs[1].tuples # hash.runs[2].tuples) =>
       hash.runs[1].digest # hash.runs[2].digest

(* ---------------------- read_project_files: exclusion ------------------- *)
\* the files of the tree, each with its directory ("" for the root)
TreeFiles ==
    {[dir |-> <<>>, name |-> tree.root[i].name] : i \in 1..Len(tree.root)}
    \cup UNION {{[dir |-> tree.subs[k].name, name |-> tree.subs[k].files[i].name] :
                    i \in 1..Len(tree.subs[k].files)} : k \in 1..Len(tree.subs)}
MatchesSome(text, patterns) == \E i \in 1..Len(patterns) : fnmatch(text, patterns[i])
\* the file lies under a directory that is ignored by name or by pattern
UnderIgnoredDir(f) ==
    f.dir # <<>> /\ (f.dir \in DEFAULT_IGNORE_DIRS \/ MatchesSome(f.dir, scan.ignore_patterns))
\* the file itself is ignored by extension or by pattern
IgnoredFile(f) ==
    \/ splitext(f.name) \in DEFAULT_IGNORE_EXTENSIONS
    \/ MatchesSome(relative_path(f.dir, f.name), scan.ignore_patterns)

\* C12: at every point of a scan, a file under an ignored directory is not
\* among the files either pass visits, and no file that is ignored, or lies
\* under an ignored directory, is counted, listed as skipped, read or
\* analysed; file_count counts the admitted files only.
C12_NeverAdmitsExcluded ==
    scan.pc # "idle" =>
       /\ \A f \in TreeFiles :
             LET p == relative_path(f.dir, f.name) IN
             /\ UnderIgnoredDir(f) => \A j \in 1..Len(scan.walk) : scan.walk[j].path # p
             /\ (UnderIgnoredDir(f) \/ IgnoredFile(f)) =>
                   /\ p \notin Range(scan.admitted)
                   /\ \A j \in 1..Len(scan.skips) : scan.skips[j].path # p
                   /\ p \notin Range(scan.all_files_content)
                   /\ p \notin Range(scan.static_analysis_results)
       /\ scan.file_count = Len(scan.admitted)
       /\ scan.processed_files = Len(scan.all_files_content)

\* a scan has returned with a file read, on a tree that has a file under an
\* ignored directory and an ignored file in a directory that is walked
C12_Witness ==
    /\ scan.pc = "done"
    /\ scan.processed_files > 0
    /\ \E f \in TreeFiles : UnderIgnoredDir(f) /\ ~IgnoredFile(f)
    /\ \E f \in TreeFiles : ~UnderIgnoredDir(f) /\ IgnoredFile(f)

(* ------------------ main: the cache key and the scan -------------------- *)
\* C13: the key of a run is computed over exactly the files its scan admits,
\* so a file the scan skipped for its size or for the budget is not in it, and
\* two runs on the same root and pattern list whose scans admit different
\* sets of files have different keys.
C13_KeyOverAdmitted ==
    /\ \A i \in 1..Len(hash.runs) :
          /\ hash.runs[i].hashed = hash.runs[i].admitted
          /\ hash.runs[i].hashed \cap hash.runs[i].skipped = {}
    /\ (Len(hash.runs) = 2 /\ hash.runs[1].admitted # hash.runs[2].admitted) =>
          hash.runs[1].digest # hash.runs[2].digest

(* ------------- the cache functions side by side: properties ------------- *)
\* C14: with two saves and one lookup of the same key interleaved in any way,
\* once both saves have returned the file under the key holds the complete
\* record of one of them; the lookup returns absent or the result of one of
\* them; and a file the lookup deletes holds, when it is deleted, a record
\* that is expired.
C14_LastWriterWins ==
    /\ (calls.put1.pc = "done" /\ calls.put2.pc = "done"
          /\ RaceKey \in DOMAIN cacheFiles) =>
          cacheFiles[RaceKey] \in {cache_data(calls[p].created, RaceResult(p)) : p \in RacePuts}
    /\ calls.get.pc = "done" =>
          calls.get.ret \in {None} \cup {Some(RaceResult(p)) : p \in RacePuts}
    /\ calls.get.removed.some =>
          /\ IsEntry(calls.get.removed.content)
          /\ Expired(calls.get.removed.at, EntryCreated(calls.get.removed.content),
                     calls.get.max_age_hours)

====
